---- MODULE Spec2Model ----
(***************************************************************************)
(* Model of the multi-user bank API (routes.py, models.py, ai_service.py,  *)
(* config.py).  The handlers are asyncio coroutines on one event loop: a   *)
(* handler runs without interruption up to an `await` that really          *)
(* suspends, which only happens inside ai_service._chat while the external *)
(* chat-completion call is outstanding.  So every handler is one atomic    *)
(* step up to its first external call, and one further atomic step per     *)
(* reply of the external collaborator.                                     *)
(*                                                                         *)
(* Each such step is written as an operator that gives, for the current    *)
(* state and the request (or reply), the state the step leaves and the     *)
(* response it sends, if any; the action of the step installs that state.  *)
(*                                                                         *)
(* Amounts are modelled as integers (the code uses Python floats); strings *)
(* that the code transforms (the model output in categorize_transaction)   *)
(* are sequences of characters.                                            *)
(***************************************************************************)
EXTENDS Integers, Sequences, FiniteSets, TLC

VARIABLES
  user_accounts,        \* config.user_accounts: username -> balance
  user_details,         \* config.user_details: username -> profile
  transaction_history,  \* config.transaction_history: list of records
  api_key,              \* ai_service._GEMINI_API_KEY is set (fixed at import)
  clock,                \* the value the next datetime.now() returns
  inflight,             \* suspended handlers, by slot
  nDeposits,            \* history: deposits that mutated the ledger
  nWithdrawals,         \* history: withdrawals that mutated the ledger
  nTransfers            \* history: transfers that mutated the ledger

vars == <<user_accounts, user_details, transaction_history, api_key, clock,
          inflight, nDeposits, nWithdrawals, nTransfers>>

ledger == <<user_accounts, user_details, transaction_history>>

----------------------------------------------------------------------------
(* Bounds of the model *)

\* the log holds at most this many records
MaxLog == 3
\* at most this many handlers are suspended in an external call at once
MaxInflight == 1

(* Inputs *)
None == "None"
Usernames == {"alice", "bob"}
\* the usernames a request may name: "carol" never has an account
AnyUser == Usernames \cup {"carol"}
\* amounts a request may carry; 0 is rejected by the request model
Amounts == {0, 30, 70, 100}
\* note: absent, empty, or a text
Notes == {None, "", "pizza"}
\* pins, as character sequences: numeric, not numeric, too short
Pins == {<<"1", "2", "3", "4">>, <<"1", "2", "a", "b">>, <<"1", "2", "3">>}
\* what the chat model may answer to the Categorizer prompt
ModelOutputs == {<<"F", "o", "o", "d">>,
                 <<" ", "f", "O", "O", "D", "\n">>,
                 <<"F", "o", "o", "d", "s">>,
                 <<"O", "t", "h", "e", "r", "s", " ">>}
\* tips the Advisor may return, after strip()
Tips == {"", "Cook at home."}

\* The requests the model sends.  (The properties below are stated for
\* every request over Usernames, Amounts, Notes and Pins, in every state
\* these requests reach.)
CreateUserRequests ==
  {<<"alice", <<"1", "2", "3", "4">>>>, <<"bob", <<"1", "2", "3", "4">>>>,
   <<"alice", <<"1", "2", "3">>>>}
DepositRequests ==
  ({"alice"} \X {100} \X {None, "pizza"}) \cup {<<"bob", 100, None>>}
    \cup {<<"alice", 0, None>>}
WithdrawRequests ==
  {<<"alice", 30, None>>, <<"alice", 30, "pizza">>, <<"alice", 100, None>>,
   <<"alice", 70, "pizza">>} \cup
    ({"bob"} \X {30, 100} \X {None}) \cup {<<"alice", 0, None>>}
TransferRequests ==
  ({"alice"} \X {"bob", "alice"} \X {30, 100} \X {None, "pizza"}) \cup
    ({"bob"} \X {"alice"} \X {30, 100} \X {None}) \cup
    {<<"alice", "bob", 0, None>>}

Slots == 1..MaxInflight

----------------------------------------------------------------------------
(* ai_service.py: the Categorizer's normalisation of the model output *)

UpperCase == <<"A", "B", "C", "D", "E", "F", "G", "H", "I", "J", "K", "L", "M",
               "N", "O", "P", "Q", "R", "S", "T", "U", "V", "W", "X", "Y", "Z">>
LowerCase == <<"a", "b", "c", "d", "e", "f", "g", "h", "i", "j", "k", "l", "m",
               "n", "o", "p", "q", "r", "s", "t", "u", "v", "w", "x", "y", "z">>
Whitespace == {" ", "\n", "\t"}

\* str.lower() of one character
lowerChar(c) ==
  IF \E i \in 1..Len(UpperCase) : UpperCase[i] = c
  THEN LowerCase[CHOOSE i \in 1..Len(UpperCase) : UpperCase[i] = c]
  ELSE c

\* str.lower()
lower(str) == [i \in 1..Len(str) |-> lowerChar(str[i])]

\* str.strip(): drop leading and trailing whitespace
RECURSIVE lstrip(_)
lstrip(str) ==
  IF str # <<>> /\ Head(str) \in Whitespace THEN lstrip(Tail(str)) ELSE str

RECURSIVE rstrip(_)
rstrip(str) ==
  IF str # <<>> /\ str[Len(str)] \in Whitespace
  THEN rstrip(SubSeq(str, 1, Len(str) - 1))
  ELSE str

\* faulty variant: trailing whitespace is kept
strip_leading_only(str) == lstrip(str)

strip(str) == rstrip(lstrip(str))

\* _ALLOWED_CATEGORIES, in list order
ALLOWED_CATEGORIES ==
  <<"Food", "Shopping", "Transport", "Bills", "Education", "Entertainment",
    "Health", "Others">>

\* the characters of a category label
Spelling(cat) ==
  CASE cat = "Food" -> <<"F", "o", "o", "d">>
    [] cat = "Shopping" -> <<"S", "h", "o", "p", "p", "i", "n", "g">>
    [] cat = "Transport" -> <<"T", "r", "a", "n", "s", "p", "o", "r", "t">>
    [] cat = "Bills" -> <<"B", "i", "l", "l", "s">>
    [] cat = "Education" -> <<"E", "d", "u", "c", "a", "t", "i", "o", "n">>
    [] cat = "Entertainment" ->
         <<"E", "n", "t", "e", "r", "t", "a", "i", "n", "m", "e", "n", "t">>
    [] cat = "Health" -> <<"H", "e", "a", "l", "t", "h">>
    [] cat = "Others" -> <<"O", "t", "h", "e", "r", "s">>

\* categorize_transaction, given the text _chat returned
categorize_transaction(content) ==
  LET raw == strip(content)
      hits == {i \in 1..Len(ALLOWED_CATEGORIES) :
                 lower(raw) = lower(Spelling(ALLOWED_CATEGORIES[i]))}
  IN IF hits # {}
     THEN ALLOWED_CATEGORIES[CHOOSE i \in hits : \A j \in hits : i <= j]
     ELSE "Others"

\* `if request.note:` -- None and the empty string are falsy
Truthy(note) == note # None /\ note # ""

----------------------------------------------------------------------------
(* Records *)

\* a transaction record as the handlers build it; "category" is absent
\* (None) until the analysis writes it
TransactionRecord(type, username, amount, to_user, from_user, timestamp, note) ==
  [type |-> type, username |-> username, amount |-> amount,
   to_user |-> to_user, from_user |-> from_user, timestamp |-> timestamp,
   note |-> note, category |-> None]

\* a slot with no suspended handler.  recs: the positions in the log of the
\* records the handler created (it holds references to them); after,
\* to_after: the balances its own mutation left (history); chats: the _chat
\* calls it has made
IdleSlot ==
  [op |-> "idle", phase |-> None, username |-> None, to_user |-> None,
   amount |-> 0, note |-> None, recs |-> <<>>, category |-> None,
   after |-> 0, to_after |-> 0, total |-> 0, chats |-> 0]

\* no response: the handler is suspended
NoResponse ==
  [status |-> 0, detail |-> None, new_balance |-> 0, to_balance |-> 0,
   analysis |-> FALSE, category |-> None, tip |-> None, has_data |-> FALSE,
   total |-> 0, transactions |-> <<>>, message |-> None, note |-> None,
   balance |-> 0]

FreeSlots == {s \in Slots : inflight[s].op = "idle"}
\* the slot a newly suspended handler takes
NextSlot == CHOOSE s \in FreeSlots : \A t \in FreeSlots : s <= t

Init ==
  /\ user_accounts = <<>>
  /\ user_details = <<>>
  /\ transaction_history = <<>>
  /\ api_key \in BOOLEAN
  /\ clock = 0
  /\ inflight = [s \in Slots |-> IdleSlot]
  /\ nDeposits = 0
  /\ nWithdrawals = 0
  /\ nTransfers = 0

----------------------------------------------------------------------------
(* Outcomes of a step *)

\* the state as a step finds it, with no response
Here ==
  [user_accounts |-> user_accounts, user_details |-> user_details,
   transaction_history |-> transaction_history, clock |-> clock,
   inflight |-> inflight, nDeposits |-> nDeposits,
   nWithdrawals |-> nWithdrawals, nTransfers |-> nTransfers,
   response |-> NoResponse, full |-> FALSE]

\* `raise HTTPException(status_code, detail)` (or the request model's 422)
\* before any mutation: the handler ends, nothing is written
HTTPException(status_code, detail) ==
  [Here EXCEPT !.response = [NoResponse EXCEPT !.status = status_code,
                                               !.detail = detail]]

\* the step does not fit the bounds of the model (the log or the slots are
\* full) and is not taken
Full == [Here EXCEPT !.full = TRUE]

\* response_body of deposit, withdraw and transfer: the balances are read
\* from user_accounts when the response is built
response_body(req, accounts, analysis, category, tip) ==
  [NoResponse EXCEPT !.status = 200, !.detail = "OK",
                     !.new_balance = accounts[req.username],
                     !.to_balance =
                        IF req.op = "transfer" THEN accounts[req.to_user]
                        ELSE 0,
                     !.analysis = analysis, !.category = category,
                     !.tip = tip]

\* faulty variant: the handler is suspended in its analysis before the
\* mutation and the append have been made
StartAnalysis_before_commit(req, done) ==
  IF ~Truthy(req.note)
  THEN [done EXCEPT !.response =
          response_body(req, done.user_accounts, FALSE, None, None)]
  ELSE IF ~api_key
  THEN [done EXCEPT !.response =
          response_body(req, done.user_accounts, FALSE, None, None)]
  ELSE IF FreeSlots = {} THEN Full
  ELSE [Here EXCEPT !.inflight[NextSlot] =
          [req EXCEPT !.phase = "categorizer", !.chats = 1]]

\* "Optionally run AI analysis on the note", first part: after the append,
\* up to the response or to the first external call.  `done` is the outcome
\* of the mutation and the append.
StartAnalysis(req, done) ==
  IF ~Truthy(req.note)
  THEN [done EXCEPT !.response =
          response_body(req, done.user_accounts, FALSE, None, None)]
  ELSE IF ~api_key
  THEN \* _chat raises RuntimeError before it awaits anything; the handler
       \* catches it and answers
       [done EXCEPT !.response =
          response_body(req, done.user_accounts, FALSE, None, None)]
  ELSE IF FreeSlots = {} THEN Full
  ELSE [done EXCEPT !.inflight[NextSlot] =
          [req EXCEPT !.phase = "categorizer", !.chats = 1]]

\* the suspended handlers are a pool without places: after a step those
\* still suspended fill the first slots, in their order
Busy(fl) == {s \in Slots : fl[s].op # "idle"}
Compact(fl) ==
  [s \in Slots |->
     IF s <= Cardinality(Busy(fl))
     THEN fl[CHOOSE t \in Busy(fl) :
               Cardinality({r \in Busy(fl) : r < t}) = s - 1]
     ELSE IdleSlot]

\* the step installs its outcome
Apply(outcome) ==
  /\ ~outcome.full
  /\ user_accounts' = outcome.user_accounts
  /\ user_details' = outcome.user_details
  /\ transaction_history' = outcome.transaction_history
  /\ clock' = outcome.clock
  /\ inflight' = Compact(outcome.inflight)
  /\ nDeposits' = outcome.nDeposits
  /\ nWithdrawals' = outcome.nWithdrawals
  /\ nTransfers' = outcome.nTransfers
  /\ api_key' = api_key

----------------------------------------------------------------------------
(* POST /authenticate *)

Digits == {"0", "1", "2", "3", "4", "5", "6", "7", "8", "9"}

\* str.isdigit(): at least one character, and every character a digit
isdigit(str) == str # <<>> /\ \A i \in 1..Len(str) : str[i] \in Digits

\* faulty variant: the account is looked up before the pin is
authenticate_user_first(username, pin) ==
  IF Len(pin) # 4 THEN HTTPException(422, "Validation")
  ELSE IF username \notin DOMAIN user_accounts
  THEN HTTPException(404, "NotFound")
  ELSE IF ~isdigit(pin) THEN HTTPException(400, "InvalidPinFormat")
  ELSE [Here EXCEPT !.response =
          [NoResponse EXCEPT !.status = 200, !.detail = "OK",
                             !.message = "Welcome, " \o username \o "!"]]

\* faulty variant: the pin is compared with the one of the profile
authenticate_checks_pin(username, pin) ==
  IF Len(pin) # 4 THEN HTTPException(422, "Validation")
  ELSE IF ~isdigit(pin) THEN HTTPException(400, "InvalidPinFormat")
  ELSE IF username \in DOMAIN user_accounts
  THEN IF user_details[username].pin = pin
       THEN [Here EXCEPT !.response =
               [NoResponse EXCEPT !.status = 200, !.detail = "OK",
                                  !.message = "Welcome, " \o username \o "!"]]
       ELSE HTTPException(400, "WrongPin")
  ELSE HTTPException(404, "NotFound")

\* the pin is looked at for its format only; it is not compared with the
\* stored one
authenticate(username, pin) ==
  IF Len(pin) # 4 THEN HTTPException(422, "Validation")
  ELSE IF ~isdigit(pin) THEN HTTPException(400, "InvalidPinFormat")
  ELSE IF username \in DOMAIN user_accounts
  THEN [Here EXCEPT !.response =
          [NoResponse EXCEPT !.status = 200, !.detail = "OK",
                             !.message = "Welcome, " \o username \o "!"]]
  ELSE HTTPException(404, "NotFound")

----------------------------------------------------------------------------
(* POST /create-user *)

\* faulty variant: no look at the accounts, an existing one is reset
create_user_overwrite(username, first_name, last_name, email, phone, pin) ==
  IF Len(pin) # 4 THEN HTTPException(422, "Validation")
  ELSE [Here EXCEPT
          !.user_accounts =
             [u \in DOMAIN user_accounts \cup {username} |->
                IF u = username THEN 0 ELSE user_accounts[u]],
          !.user_details =
             (username :> [first_name |-> first_name, last_name |-> last_name,
                            email |-> email, phone |-> phone, pin |-> pin])
             @@ user_details,
          !.response = [NoResponse EXCEPT !.status = 201, !.detail = "OK"]]

create_user(username, first_name, last_name, email, phone, pin) ==
  IF Len(pin) # 4 THEN HTTPException(422, "Validation")
  ELSE IF username \in DOMAIN user_accounts
  THEN HTTPException(400, "AlreadyExists")
  ELSE [Here EXCEPT
          !.user_accounts = (username :> 0) @@ user_accounts,
          !.user_details =
             (username :> [first_name |-> first_name, last_name |-> last_name,
                            email |-> email, phone |-> phone, pin |-> pin])
             @@ user_details,
          !.response = [NoResponse EXCEPT !.status = 201, !.detail = "OK"]]

----------------------------------------------------------------------------
(* POST /deposit *)

\* user_accounts[username] += amount
Credit(accounts, username, amount) ==
  [accounts EXCEPT ![username] = @ + amount]

\* user_accounts[username] -= amount
Debit(accounts, username, amount) ==
  [accounts EXCEPT ![username] = @ - amount]

deposit_record(username, amount, timestamp, note) ==
  TransactionRecord("deposit", username, amount, None, None, timestamp, note)

\* faulty variant: the record is appended twice
append_twice(history, record) == Append(Append(history, record), record)

\* transaction_history.append(record)
append(history, record) == Append(history, record)

\* deposit, from the mutation on
deposit_commit(username, amount, note) ==
  IF Len(transaction_history) + 1 > MaxLog THEN Full
  ELSE LET accounts == Credit(user_accounts, username, amount)
           req == [IdleSlot EXCEPT !.op = "deposit", !.username = username,
                                   !.amount = amount, !.note = note,
                                   !.recs = <<Len(transaction_history) + 1>>,
                                   !.after = accounts[username]]
       IN StartAnalysis(req,
            [Here EXCEPT
               !.user_accounts = accounts,
               !.transaction_history =
                  append(transaction_history,
                         deposit_record(username, amount, clock, note)),
               !.clock = clock + 1,
               !.nDeposits = nDeposits + 1])

deposit(username, amount, note) ==
  IF amount <= 0 THEN HTTPException(422, "Validation")
  ELSE IF username \notin DOMAIN user_accounts
  THEN HTTPException(404, "NotFound")
  ELSE deposit_commit(username, amount, note)

----------------------------------------------------------------------------
(* POST /withdraw *)

\* faulty variant: only checks that the account holds something
InsufficientBalance_nonempty(accounts, username, amount) ==
  accounts[username] <= 0

\* faulty variant: off by one, refuses amount = balance
InsufficientBalance_strict(accounts, username, amount) ==
  accounts[username] <= amount

\* `user_accounts[username] < request.amount`
InsufficientBalance(accounts, username, amount) == accounts[username] < amount

\* faulty variant: the amount is stored unsigned
withdrawal_record_unsigned(username, amount, timestamp, note) ==
  TransactionRecord("withdrawal", username, amount, None, None, timestamp,
                    note)

withdrawal_record(username, amount, timestamp, note) ==
  TransactionRecord("withdrawal", username, -amount, None, None, timestamp,
                    note)

\* withdraw, from the mutation on
withdraw_commit(username, amount, note) ==
  IF Len(transaction_history) + 1 > MaxLog THEN Full
  ELSE LET accounts == Debit(user_accounts, username, amount)
           req == [IdleSlot EXCEPT !.op = "withdraw", !.username = username,
                                   !.amount = amount, !.note = note,
                                   !.recs = <<Len(transaction_history) + 1>>,
                                   !.after = accounts[username]]
       IN StartAnalysis(req,
            [Here EXCEPT
               !.user_accounts = accounts,
               !.transaction_history =
                  append(transaction_history,
                         withdrawal_record(username, amount, clock, note)),
               !.clock = clock + 1,
               !.nWithdrawals = nWithdrawals + 1])

\* faulty variant: the balance is debited before the funds are checked
withdraw_debits_first(username, amount, note) ==
  IF amount <= 0 THEN HTTPException(422, "Validation")
  ELSE IF username \notin DOMAIN user_accounts
  THEN HTTPException(404, "NotFound")
  ELSE IF InsufficientBalance(user_accounts, username, amount)
  THEN [HTTPException(400, "InsufficientFunds") EXCEPT
          !.user_accounts = Debit(user_accounts, username, amount)]
  ELSE withdraw_commit(username, amount, note)

withdraw(username, amount, note) ==
  IF amount <= 0 THEN HTTPException(422, "Validation")
  ELSE IF username \notin DOMAIN user_accounts
  THEN HTTPException(404, "NotFound")
  ELSE IF InsufficientBalance(user_accounts, username, amount)
  THEN HTTPException(400, "InsufficientFunds")
  ELSE withdraw_commit(username, amount, note)

----------------------------------------------------------------------------
(* POST /transfer *)

transfer_out_record(from_user, to_user, amount, timestamp, note) ==
  TransactionRecord("transfer_out", from_user, -amount, to_user, None,
                    timestamp, note)

\* faulty variant: the second record takes its own datetime.now()
transfer_in_record_own_clock(from_user, to_user, amount, timestamp, note) ==
  TransactionRecord("transfer_in", to_user, amount, None, from_user,
                    timestamp + 1, note)

transfer_in_record(from_user, to_user, amount, timestamp, note) ==
  TransactionRecord("transfer_in", to_user, amount, None, from_user,
                    timestamp, note)

\* faulty variant: the funds are checked before the parties are compared
transfer_check_funds_first(accounts, from_user, to_user, amount) ==
  IF from_user \notin DOMAIN accounts THEN <<404, "NotFound">>
  ELSE IF to_user \notin DOMAIN accounts THEN <<404, "NotFound">>
  ELSE IF InsufficientBalance(accounts, from_user, amount)
  THEN <<400, "InsufficientFunds">>
  ELSE IF from_user = to_user THEN <<400, "InvalidInput">>
  ELSE <<200, "OK">>

\* the checks of transfer, in the handler's order: the status and the
\* error raised, or 200 when all pass
transfer_check(accounts, from_user, to_user, amount) ==
  IF from_user \notin DOMAIN accounts THEN <<404, "NotFound">>
  ELSE IF to_user \notin DOMAIN accounts THEN <<404, "NotFound">>
  ELSE IF from_user = to_user THEN <<400, "InvalidInput">>
  ELSE IF InsufficientBalance(accounts, from_user, amount)
  THEN <<400, "InsufficientFunds">>
  ELSE <<200, "OK">>

\* faulty variant: the sender is debited and the receiver is not credited
transfer_commit_debit_only(from_user, to_user, amount, note) ==
  IF Len(transaction_history) + 2 > MaxLog THEN Full
  ELSE LET accounts == Debit(user_accounts, from_user, amount)
           timestamp == clock
           req == [IdleSlot EXCEPT !.op = "transfer", !.username = from_user,
                                   !.to_user = to_user, !.amount = amount,
                                   !.note = note,
                                   !.recs = <<Len(transaction_history) + 1,
                                              Len(transaction_history) + 2>>,
                                   !.after = accounts[from_user],
                                   !.to_after = accounts[to_user]]
       IN StartAnalysis(req,
            [Here EXCEPT
               !.user_accounts = accounts,
               !.transaction_history =
                  append(append(transaction_history,
                                transfer_out_record(from_user, to_user,
                                                    amount, timestamp, note)),
                         transfer_in_record(from_user, to_user, amount,
                                            timestamp, note)),
               !.clock = clock + 1,
               !.nTransfers = nTransfers + 1])

\* transfer, from the mutation on
transfer_commit(from_user, to_user, amount, note) ==
  IF Len(transaction_history) + 2 > MaxLog THEN Full
  ELSE LET accounts ==
             Credit(Debit(user_accounts, from_user, amount), to_user, amount)
           timestamp == clock
           req == [IdleSlot EXCEPT !.op = "transfer", !.username = from_user,
                                   !.to_user = to_user, !.amount = amount,
                                   !.note = note,
                                   !.recs = <<Len(transaction_history) + 1,
                                              Len(transaction_history) + 2>>,
                                   !.after = accounts[from_user],
                                   !.to_after = accounts[to_user]]
       IN StartAnalysis(req,
            [Here EXCEPT
               !.user_accounts = accounts,
               !.transaction_history =
                  append(append(transaction_history,
                                transfer_out_record(from_user, to_user,
                                                    amount, timestamp, note)),
                         transfer_in_record(from_user, to_user, amount,
                                            timestamp, note)),
               !.clock = clock + 1,
               !.nTransfers = nTransfers + 1])

transfer(from_user, to_user, amount, note) ==
  IF amount <= 0 THEN HTTPException(422, "Validation")
  ELSE IF transfer_check(user_accounts, from_user, to_user, amount)[1] # 200
  THEN HTTPException(
         transfer_check(user_accounts, from_user, to_user, amount)[1],
         transfer_check(user_accounts, from_user, to_user, amount)[2])
  ELSE transfer_commit(from_user, to_user, amount, note)

----------------------------------------------------------------------------
(* GET /spending-summary/{username} *)

\* [tx for tx in transaction_history if tx.get("username") == username]
user_txs(history, username) ==
  SelectSeq(history, LAMBDA tx : tx.username = username)

\* faulty variant: of several maximal totals the last one is taken
dominant_last(totals) ==
  totals[CHOOSE i \in 1..Len(totals) :
           \A j \in 1..Len(totals) :
              \/ totals[j].total < totals[i].total
              \/ totals[j].total = totals[i].total /\ j <= i]

\* faulty variant: the sign of the amount is not looked at
Skipped_any_sign(tx) == ~Truthy(tx.category)

\* `if not category or amount >= 0: continue`
Skipped(tx) == ~Truthy(tx.category) \/ tx.amount >= 0

abs(n) == IF n < 0 THEN -n ELSE n

\* category_totals[category] = category_totals.get(category, 0.0) + spend,
\* on a dict kept as the sequence of its items in insertion order
AddSpend(totals, category, spend) ==
  IF \E i \in 1..Len(totals) : totals[i].category = category
  THEN [i \in 1..Len(totals) |->
          IF totals[i].category = category
          THEN [totals[i] EXCEPT !.total = @ + spend]
          ELSE totals[i]]
  ELSE Append(totals, [category |-> category, total |-> spend])

\* the loop over user_txs
RECURSIVE category_totals(_)
category_totals(txs) ==
  IF txs = <<>> THEN <<>>
  ELSE LET done == category_totals(SubSeq(txs, 1, Len(txs) - 1))
           tx == txs[Len(txs)]
       IN IF Skipped(tx) THEN done
          ELSE AddSpend(done, tx.category, abs(tx.amount))

\* max(category_totals.items(), key=lambda kv: kv[1]): the first item, in
\* insertion order, whose total is maximal
dominant(totals) ==
  totals[CHOOSE i \in 1..Len(totals) :
           \A j \in 1..Len(totals) :
              \/ totals[j].total < totals[i].total
              \/ totals[j].total = totals[i].total /\ i <= j]

NoInsights == "No spending insights available yet."
Fallback == "Your highest spending category is ..."

\* the response of spending-summary with data; `tip or f"Your highest ..."`
summary_response(req, tip) ==
  [NoResponse EXCEPT !.status = 200, !.detail = "OK", !.has_data = TRUE,
                     !.category = req.category, !.total = req.total,
                     !.tip = IF Truthy(tip) THEN tip ELSE Fallback]

get_spending_summary(username) ==
  IF username \notin DOMAIN user_accounts
  THEN HTTPException(404, "NotFound")
  ELSE LET totals == category_totals(user_txs(transaction_history, username))
       IN IF totals = <<>>
          THEN [Here EXCEPT !.response =
                  [NoResponse EXCEPT !.status = 200, !.detail = "OK",
                                     !.has_data = FALSE, !.category = None,
                                     !.total = 0, !.tip = NoInsights]]
          ELSE LET req == [IdleSlot EXCEPT
                             !.op = "summary", !.username = username,
                             !.category = dominant(totals).category,
                             !.total = dominant(totals).total]
               IN IF ~api_key
                  THEN \* _chat raises RuntimeError at once
                       [Here EXCEPT !.response = summary_response(req, None)]
                  ELSE IF FreeSlots = {} THEN Full
                  ELSE [Here EXCEPT !.inflight[NextSlot] =
                          [req EXCEPT !.phase = "advisor", !.chats = 1]]

----------------------------------------------------------------------------
(* GET /balance/{username} *)

get_balance(username) ==
  IF username \notin DOMAIN user_accounts
  THEN HTTPException(404, "NotFound")
  ELSE [Here EXCEPT !.response =
          [NoResponse EXCEPT !.status = 200, !.detail = "OK",
                             !.balance = user_accounts[username]]]

----------------------------------------------------------------------------
(* GET /transactions/{username} *)

\* the 10 of `user_txs[-10:]`
RecentLimit == 10

\* faulty variant: the slice txs[:n], the oldest n
tail_slice_oldest(txs, n) ==
  IF Len(txs) <= n THEN txs ELSE SubSeq(txs, 1, n)

\* the slice txs[-n:]
tail_slice(txs, n) ==
  IF Len(txs) <= n THEN txs ELSE SubSeq(txs, Len(txs) - n + 1, Len(txs))

\* the slice txs[::-1]
reversed(txs) == [i \in 1..Len(txs) |-> txs[Len(txs) + 1 - i]]

get_transactions(username) ==
  IF username \notin DOMAIN user_accounts
  THEN HTTPException(404, "NotFound")
  ELSE [Here EXCEPT !.response =
          [NoResponse EXCEPT
             !.status = 200, !.detail = "OK",
             !.transactions =
                reversed(tail_slice(user_txs(transaction_history, username),
                                    RecentLimit))]]

----------------------------------------------------------------------------
(* POST /analyze-transaction *)

\* `raise HTTPException(status_code=500, ...)` of analyze_transaction_endpoint
AnalysisError(detail) ==
  [NoResponse EXCEPT !.status = 500, !.detail = detail]

\* faulty variant: the configuration error is swallowed as on deposit
analyze_transaction_endpoint_swallows(note) ==
  IF ~Truthy(note) THEN HTTPException(422, "Validation")
  ELSE IF ~api_key
  THEN [Here EXCEPT !.response =
          [NoResponse EXCEPT !.status = 200, !.detail = "OK",
                             !.note = note]]
  ELSE IF FreeSlots = {} THEN Full
  ELSE [Here EXCEPT !.inflight[NextSlot] =
          [IdleSlot EXCEPT !.op = "analyze", !.note = note,
                           !.phase = "categorizer", !.chats = 1]]

\* note has min_length=1.  Without a key _chat raises RuntimeError before it
\* awaits anything: `except RuntimeError`, detail str(e).  With a key the
\* handler is suspended in the Categorizer's call; it writes nothing
analyze_transaction_endpoint(note) ==
  IF ~Truthy(note) THEN HTTPException(422, "Validation")
  ELSE IF ~api_key
  THEN [Here EXCEPT !.response = AnalysisError("NotConfigured")]
  ELSE IF FreeSlots = {} THEN Full
  ELSE [Here EXCEPT !.inflight[NextSlot] =
          [IdleSlot EXCEPT !.op = "analyze", !.note = note,
                           !.phase = "categorizer", !.chats = 1]]

----------------------------------------------------------------------------
(* The external chat-completion call returns or raises *)

LedgerOps == {"deposit", "withdraw", "transfer"}

\* faulty variant: only the first of the handler's records is labelled
WriteCategory_first_only(history, recs, category) ==
  [i \in 1..Len(history) |->
     IF recs # <<>> /\ recs[1] = i
     THEN [history[i] EXCEPT !.category = category]
     ELSE history[i]]

\* faulty variant: the label goes on the newest records of the log
WriteCategory_newest(history, recs, category) ==
  [i \in 1..Len(history) |->
     IF i > Len(history) - Len(recs)
     THEN [history[i] EXCEPT !.category = category]
     ELSE history[i]]

\* record["category"] = analysis["category"], on each record the handler
\* created
WriteCategory(history, recs, category) ==
  [i \in 1..Len(history) |->
     IF \E k \in 1..Len(recs) : recs[k] = i
     THEN [history[i] EXCEPT !.category = category]
     ELSE history[i]]

\* categorize_transaction's _chat returns `content`: analyze_transaction
\* goes on to analyze_category, whose _chat suspends the handler again
CategorizerReturns(s, content) ==
  [Here EXCEPT !.inflight[s] =
     [@ EXCEPT !.phase = "advisor",
               !.category = categorize_transaction(content),
               !.chats = @ + 1]]

\* faulty variant: no `except`, the error reaches the caller as a 500
CategorizerRaises_unhandled(s) ==
  [Here EXCEPT !.inflight[s] = IdleSlot,
               !.response = [NoResponse EXCEPT !.status = 500,
                                               !.detail = "Internal"]]

\* categorize_transaction's _chat raises: `except Exception` in the handler,
\* which answers without analysis; analyze_transaction_endpoint answers 500
CategorizerRaises(s) ==
  [Here EXCEPT !.inflight[s] = IdleSlot,
               !.response = IF inflight[s].op = "analyze"
                            THEN AnalysisError("AnalysisFailed")
                            ELSE response_body(inflight[s], user_accounts,
                                               FALSE, None, None)]

\* analyze_category's (or analyze_spending_overview's) _chat returns: the
\* handler writes the category on its records and answers
AdvisorReturns(s, tip) ==
  IF inflight[s].op = "summary"
  THEN [Here EXCEPT !.inflight[s] = IdleSlot,
                    !.response = summary_response(inflight[s], tip)]
  ELSE IF inflight[s].op = "analyze"
  THEN \* TransactionAnalysisResponse(**result)
       [Here EXCEPT !.inflight[s] = IdleSlot,
                    !.response =
                       [NoResponse EXCEPT !.status = 200, !.detail = "OK",
                                          !.note = inflight[s].note,
                                          !.category = inflight[s].category,
                                          !.tip = tip]]
  ELSE [Here EXCEPT
          !.inflight[s] = IdleSlot,
          !.transaction_history =
             WriteCategory(transaction_history, inflight[s].recs,
                           inflight[s].category),
          !.response = response_body(inflight[s], user_accounts, TRUE,
                                     inflight[s].category, tip)]

\* analyze_category's (or analyze_spending_overview's) _chat raises
AdvisorRaises(s) ==
  [Here EXCEPT
     !.inflight[s] = IdleSlot,
     !.response = IF inflight[s].op = "summary"
                  THEN summary_response(inflight[s], None)
                  ELSE IF inflight[s].op = "analyze"
                  THEN AnalysisError("AnalysisFailed")
                  ELSE response_body(inflight[s], user_accounts, FALSE, None,
                                     None)]

AwaitingCategorizer(s) == inflight[s].phase = "categorizer"
AwaitingAdvisor(s) == inflight[s].phase = "advisor"

----------------------------------------------------------------------------
(* Actions *)

CreateUser(username, pin) ==
  /\ pin \in Pins
  /\ Apply(create_user(username, "First", "Last", "a@b.c", "555", pin))
Authenticate(username, pin) ==
  /\ pin \in Pins
  /\ Apply(authenticate(username, pin))
Deposit(username, amount, note) ==
  /\ amount \in Amounts
  /\ Apply(deposit(username, amount, note))
Withdraw(username, amount, note) ==
  /\ amount \in Amounts
  /\ Apply(withdraw(username, amount, note))
Transfer(from_user, to_user, amount, note) ==
  /\ amount \in Amounts
  /\ Apply(transfer(from_user, to_user, amount, note))
SpendingSummary(username) ==
  /\ username \in Usernames
  /\ Apply(get_spending_summary(username))
AnalyzeTransaction(note) ==
  /\ note \in Notes
  /\ Apply(analyze_transaction_endpoint(note))
GetBalance(username) ==
  /\ username \in AnyUser
  /\ Apply(get_balance(username))
GetTransactions(username) ==
  /\ username \in AnyUser
  /\ Apply(get_transactions(username))
CategorizerReply(s, content) ==
  AwaitingCategorizer(s) /\ Apply(CategorizerReturns(s, content))
CategorizerError(s) == AwaitingCategorizer(s) /\ Apply(CategorizerRaises(s))
AdvisorReply(s, tip) == AwaitingAdvisor(s) /\ Apply(AdvisorReturns(s, tip))
AdvisorError(s) == AwaitingAdvisor(s) /\ Apply(AdvisorRaises(s))

\* the steps of the ledger's handlers (analyze-transaction requests, which
\* neither read nor write the ledger, are taken in NextAnalyze below)
Next ==
  \/ \E r \in CreateUserRequests : CreateUser(r[1], r[2])
  \/ \E username \in AnyUser, pin \in Pins : Authenticate(username, pin)
  \/ \E r \in DepositRequests : Deposit(r[1], r[2], r[3])
  \/ \E r \in WithdrawRequests : Withdraw(r[1], r[2], r[3])
  \/ \E r \in TransferRequests : Transfer(r[1], r[2], r[3], r[4])
  \/ \E username \in Usernames : SpendingSummary(username)
  \/ \E username \in AnyUser : GetBalance(username)
  \/ \E username \in AnyUser : GetTransactions(username)
  \/ \E s \in Slots, content \in ModelOutputs : CategorizerReply(s, content)
  \/ \E s \in Slots : CategorizerError(s)
  \/ \E s \in Slots, tip \in Tips : AdvisorReply(s, tip)
  \/ \E s \in Slots : AdvisorError(s)

Spec == Init /\ [][Next]_vars

\* the steps the event loop takes on its own account: running the handler
\* of a request up to its response or its first external call
Requests ==
  \/ \E r \in CreateUserRequests : CreateUser(r[1], r[2])
  \/ \E username \in AnyUser, pin \in Pins : Authenticate(username, pin)
  \/ \E r \in DepositRequests : Deposit(r[1], r[2], r[3])
  \/ \E r \in WithdrawRequests : Withdraw(r[1], r[2], r[3])
  \/ \E r \in TransferRequests : Transfer(r[1], r[2], r[3], r[4])
  \/ \E username \in Usernames : SpendingSummary(username)
  \/ \E username \in AnyUser : GetBalance(username)
  \/ \E username \in AnyUser : GetTransactions(username)

\* The event loop runs every handler that can run.  The outstanding
\* external call is another matter: _client is built without a timeout and
\* _chat awaits `_client.chat.completions.create` directly (no
\* asyncio.wait_for), so nothing in the code makes the call return or raise;
\* the steps CategorizerReply, CategorizerError, AdvisorReply and
\* AdvisorError happen when the collaborator answers or the connection
\* fails, and carry no fairness
FairSpec == Spec /\ WF_vars(Requests)

----------------------------------------------------------------------------
(* The analysis endpoint beside a small ledger: analyze-transaction requests,
   and the deposits and withdrawals of one account *)

NextAnalyze ==
  \/ \E note \in Notes : AnalyzeTransaction(note)
  \/ CreateUser("alice", <<"1", "2", "3", "4">>)
  \/ \E note \in {None, "pizza"} : Deposit("alice", 100, note)
  \/ \E note \in {None, "pizza"} : Withdraw("alice", 30, note)
  \/ \E s \in Slots, content \in ModelOutputs : CategorizerReply(s, content)
  \/ \E s \in Slots : CategorizerError(s)
  \/ \E s \in Slots, tip \in Tips : AdvisorReply(s, tip)
  \/ \E s \in Slots : AdvisorError(s)

SpecAnalyze == Init /\ [][NextAnalyze]_vars

----------------------------------------------------------------------------
(* Long logs: the transaction listing applied to logs longer than its limit *)

\* the log holds at most this many records here
MaxRecent == 12

\* the log after create-user for alice and bob and Len(who) deposits of 100
\* without a note, the i-th to who[i]
DepositLog(who) ==
  [i \in 1..Len(who) |-> deposit_record(who[i], 100, i - 1, None)]

InitRecent ==
  \E n \in 0..MaxRecent :
     \E who \in [1..n -> Usernames] :
        /\ transaction_history = DepositLog(who)
        /\ user_accounts =
             [u \in Usernames |->
                100 * Cardinality({i \in 1..n : who[i] = u})]
        /\ user_details =
             [u \in Usernames |->
                [first_name |-> "First", last_name |-> "Last",
                 email |-> "a@b.c", phone |-> "555",
                 pin |-> <<"1", "2", "3", "4">>]]
        /\ api_key \in BOOLEAN
        /\ clock = n
        /\ inflight = [s \in Slots |-> IdleSlot]
        /\ nDeposits = n
        /\ nWithdrawals = 0
        /\ nTransfers = 0

NextRecent == \E username \in AnyUser : GetTransactions(username)

SpecRecent == InitRecent /\ [][NextRecent]_vars

\* Accounts opened with different pins: create-user stores whatever four
\* characters it is sent, and the requests that follow are made in front of
\* profiles that differ in the stored pin only.
NextPins ==
  \/ \E username \in AnyUser, pin \in Pins : CreateUser(username, pin)
  \/ \E username \in AnyUser, pin \in Pins : Authenticate(username, pin)
  \/ \E username \in Usernames : Deposit(username, 100, None)
  \/ \E username \in AnyUser : GetBalance(username)

SpecPins == Init /\ [][NextPins]_vars

----------------------------------------------------------------------------
(* Properties *)

\* valid amounts: what the request models let through
Positive == {a \in Amounts : a > 0}

\* the outcome carries an error response
Failed(o) == o.response.status \in {400, 404, 422}
\* the outcome is a mutation of the ledger that fits the bounds
Committed(o) == ~o.full /\ ~Failed(o)

RECURSIVE SumAmounts(_)
SumAmounts(txs) ==
  IF txs = <<>> THEN 0 ELSE Head(txs).amount + SumAmounts(Tail(txs))

Accounts == DOMAIN user_accounts

\* C1: every account's balance is the sum of the signed amounts of the
\* records of the log that carry its username
C1_BalanceIsSumOfRecords ==
  \A u \in Accounts :
     user_accounts[u] = SumAmounts(user_txs(transaction_history, u))

\* C1 witness: alice has a deposit and an outgoing transfer behind her, bob
\* the incoming transfer, and the transfer is still suspended
C1_Witness ==
  /\ Accounts = {"alice", "bob"}
  /\ \E i, j \in 1..Len(transaction_history) :
        /\ transaction_history[i].type = "deposit"
        /\ transaction_history[j].type = "transfer_in"
        /\ transaction_history[j].username = "bob"
  /\ user_accounts["alice"] = 70
  /\ user_accounts["bob"] = 30
  /\ \E s \in Slots : inflight[s].op = "transfer"

\* C2: a withdraw or transfer decides on the balance it then mutates (no
\* other request's mutation comes between), so among requests in flight at
\* once exactly those that fit succeed, and no balance is ever negative
C2_CheckAndMutateAtomic ==
  /\ \A u \in Accounts : user_accounts[u] >= 0
  /\ \A s \in Slots : inflight[s].after >= 0 /\ inflight[s].to_after >= 0
  /\ \A u \in Accounts, a \in Positive, n \in Notes :
        LET o == withdraw(u, a, n)
        IN /\ Failed(o) <=> a > user_accounts[u]
           /\ Committed(o) =>
                /\ o.user_accounts[u] = user_accounts[u] - a
                /\ o.user_accounts[u] >= 0
  /\ \A u, v \in Accounts, a \in Positive, n \in Notes :
        u # v =>
          LET o == transfer(u, v, a, n)
          IN /\ Failed(o) <=> a > user_accounts[u]
             /\ Committed(o) =>
                  /\ o.user_accounts[u] = user_accounts[u] - a
                  /\ o.user_accounts[u] >= 0

\* C2 witness: alice held 100; a withdrawal of 30 is still in flight
\* (suspended in its categorization) while further withdrawals and transfers
\* arrive: those of 30 fit, those of 100 do not
C2_Witness ==
  /\ "alice" \in Accounts
  /\ "bob" \in Accounts
  /\ \E s \in Slots :
        /\ inflight[s].op = "withdraw"
        /\ inflight[s].username = "alice"
        /\ inflight[s].amount = 30
  /\ user_accounts["alice"] = 70
  /\ Committed(withdraw("alice", 30, None))
  /\ Failed(withdraw("alice", 100, None))
  /\ Failed(transfer("alice", "bob", 100, None))

\* C3: for an existing account and amount > 0, withdraw fails with
\* InsufficientFunds (400) iff amount > balance; otherwise (amount = balance
\* included) it takes exactly amount off the balance and appends one
\* withdrawal record of amount -amount
C3_WithdrawIffFunds ==
  \A u \in Accounts, a \in Positive, n \in Notes :
     LET o == withdraw(u, a, n)
     IN /\ (o.response.status = 400 /\ o.response.detail = "InsufficientFunds")
             <=> a > user_accounts[u]
        /\ a <= user_accounts[u] => ~Failed(o)
        /\ Committed(o) =>
             /\ o.user_accounts =
                  [user_accounts EXCEPT ![u] = user_accounts[u] - a]
             /\ Len(o.transaction_history) = Len(transaction_history) + 1
             /\ SubSeq(o.transaction_history, 1, Len(transaction_history))
                  = transaction_history
             /\ LET rec == o.transaction_history[Len(o.transaction_history)]
                IN /\ rec.type = "withdrawal"
                   /\ rec.username = u
                   /\ rec.amount = -a
                   /\ rec.note = n

\* C3 witness: alice held 100 and has withdrawn exactly 100 (the record is
\* in the log); she holds 0 and a withdrawal of 30 is now refused
C3_Witness ==
  /\ "alice" \in Accounts
  /\ user_accounts["alice"] = 0
  /\ Len(transaction_history) = 2
  /\ transaction_history[1].type = "deposit"
  /\ transaction_history[1].amount = 100
  /\ transaction_history[2].type = "withdrawal"
  /\ transaction_history[2].amount = -100
  /\ withdraw("alice", 30, None).response.detail = "InsufficientFunds"

\* C4: a successful transfer of A from X to Y takes exactly A off X, adds
\* exactly A to Y and appends exactly two records: transfer_out for X with
\* -A naming Y, transfer_in for Y with +A naming X, with the same timestamp
\* and the same note
C4_TransferMovesAndLogsTwice ==
  \A x, y \in AnyUser, a \in Positive, n \in Notes :
     LET o == transfer(x, y, a, n)
         k == Len(transaction_history)
     IN (~o.full /\ x \in Accounts /\ y \in Accounts /\ x # y
           /\ user_accounts[x] >= a) =>
          /\ ~Failed(o)
          /\ o.user_accounts =
               [user_accounts EXCEPT ![x] = user_accounts[x] - a,
                                     ![y] = user_accounts[y] + a]
          /\ Len(o.transaction_history) = k + 2
          /\ SubSeq(o.transaction_history, 1, k) = transaction_history
          /\ LET out == o.transaction_history[k + 1]
                 in == o.transaction_history[k + 2]
             IN /\ out.type = "transfer_out" /\ out.username = x
                /\ out.amount = -a /\ out.to_user = y
                /\ in.type = "transfer_in" /\ in.username = y
                /\ in.amount = a /\ in.from_user = x
                /\ out.timestamp = in.timestamp
                /\ out.note = n /\ in.note = n
                /\ out.category = None /\ in.category = None

\* C4 witness: a transfer with a note has been made (its two records are in
\* the log) and a further transfer would succeed
C4_Witness ==
  /\ \E i \in 1..Len(transaction_history) - 1 :
        /\ transaction_history[i].type = "transfer_out"
        /\ transaction_history[i + 1].type = "transfer_in"
        /\ transaction_history[i].note = "pizza"
        /\ transaction_history[i].timestamp
             = transaction_history[i + 1].timestamp
  /\ user_accounts["bob"] = 30

\* the outcome leaves the accounts, the profiles and the log as they are
LedgerUntouched(o) ==
  /\ o.user_accounts = user_accounts
  /\ o.user_details = user_details
  /\ o.transaction_history = transaction_history

\* C5 as claimed: every transfer with from_user = to_user fails with
\* InvalidInput (400), whatever the balance, and changes nothing
C5_Original_SameUserAlwaysInvalidInput ==
  \A u \in AnyUser, a \in Positive, n \in Notes :
     LET o == transfer(u, u, a, n)
     IN /\ o.response.status = 400
        /\ o.response.detail = "InvalidInput"
        /\ LedgerUntouched(o)

\* C5 amended: a transfer with from_user = to_user fails with InvalidInput
\* (400), whatever the balance, when that user has an account, and with
\* NotFound (404) when it has none; either way it changes nothing
C5_SameUserRejected ==
  \A u \in AnyUser, a \in Positive, n \in Notes :
     LET o == transfer(u, u, a, n)
     IN /\ u \in Accounts =>
             o.response.status = 400 /\ o.response.detail = "InvalidInput"
        /\ u \notin Accounts =>
             o.response.status = 404 /\ o.response.detail = "NotFound"
        /\ LedgerUntouched(o)
        /\ o.inflight = inflight

\* C5 witness: alice holds 100, enough for the transfer to herself that is
\* refused, and 0 after withdrawing it, too little
C5_Witness ==
  /\ "alice" \in Accounts
  /\ "bob" \notin Accounts
  /\ user_accounts["alice"] = 0
  /\ Len(transaction_history) = 2
  /\ transfer("alice", "alice", 30, "pizza").response.detail = "InvalidInput"
  /\ transfer("bob", "bob", 30, "pizza").response.detail = "NotFound"

\* the records a suspended handler created are in the log, uncategorized
OwnRecordsUncategorized(history, s) ==
  \A k \in 1..Len(inflight[s].recs) :
     /\ inflight[s].recs[k] \in 1..Len(history)
     /\ history[inflight[s].recs[k]].category = None

\* the outcome of a deposit, withdraw or transfer whose analysis failed:
\* reported as success, without analysis, the ledger as the mutation left it
SuccessWithoutAnalysis(o) ==
  /\ o.response.status = 200
  /\ ~o.response.analysis
  /\ o.response.category = None
  /\ o.response.tip = None

\* C6: a failing or unreachable Categorizer/Advisor never changes the
\* outcome of a deposit, withdraw or transfer with a non-empty note: the
\* mutation and the record(s) stay, the request is answered as a success
\* without analysis, the category stays unset, and the handler makes no
\* further external call
C6_AnalysisFailureSwallowed ==
  /\ \A s \in Slots :
        /\ (AwaitingCategorizer(s) /\ inflight[s].op \in LedgerOps) =>
             LET o == CategorizerRaises(s)
             IN /\ SuccessWithoutAnalysis(o)
                /\ LedgerUntouched(o)
                /\ OwnRecordsUncategorized(o.transaction_history, s)
                /\ o.inflight[s] = IdleSlot
                /\ inflight[s].chats = 1
        /\ (AwaitingAdvisor(s) /\ inflight[s].op \in LedgerOps) =>
             LET o == AdvisorRaises(s)
             IN /\ SuccessWithoutAnalysis(o)
                /\ LedgerUntouched(o)
                /\ OwnRecordsUncategorized(o.transaction_history, s)
                /\ o.inflight[s] = IdleSlot
                /\ inflight[s].chats = 2
  /\ ~api_key =>
        \* not configured: the analysis fails before any external call
        /\ \A u \in Accounts, a \in Positive :
              /\ LET o == deposit(u, a, "pizza")
                 IN Committed(o) =>
                      /\ SuccessWithoutAnalysis(o)
                      /\ o.user_accounts[u] = user_accounts[u] + a
                      /\ Len(o.transaction_history)
                           = Len(transaction_history) + 1
                      /\ o.transaction_history[Len(o.transaction_history)]
                           .category = None
                      /\ o.inflight = inflight
              /\ LET o == withdraw(u, a, "pizza")
                 IN Committed(o) =>
                      /\ SuccessWithoutAnalysis(o)
                      /\ o.user_accounts[u] = user_accounts[u] - a
                      /\ Len(o.transaction_history)
                           = Len(transaction_history) + 1
                      /\ o.transaction_history[Len(o.transaction_history)]
                           .category = None
                      /\ o.inflight = inflight
        /\ \A u, v \in Accounts, a \in Positive :
              LET o == transfer(u, v, a, "pizza")
              IN Committed(o) =>
                   /\ SuccessWithoutAnalysis(o)
                   /\ o.user_accounts[u] = user_accounts[u] - a
                   /\ o.user_accounts[v] = user_accounts[v] + a
                   /\ Len(o.transaction_history)
                        = Len(transaction_history) + 2
                   /\ o.transaction_history[Len(o.transaction_history)]
                        .category = None
                   /\ o.transaction_history[Len(o.transaction_history) - 1]
                        .category = None
                   /\ o.inflight = inflight

\* C6 witness: a transfer with a note has moved 30 from alice to bob, the
\* Categorizer has answered and the Advisor's answer is outstanding
C6_Witness ==
  \E s \in Slots :
     /\ inflight[s].op = "transfer"
     /\ AwaitingAdvisor(s)
     /\ inflight[s].category = "Food"
     /\ user_accounts["bob"] = 30
     /\ Len(transaction_history) = 3

\* C6 witness without a key: a withdrawal with a note is in the log,
\* uncategorized, and nothing is suspended
C6_WitnessUnconfigured ==
  /\ ~api_key
  /\ Len(transaction_history) = 2
  /\ transaction_history[2].type = "withdrawal"
  /\ transaction_history[2].note = "pizza"
  /\ transaction_history[2].category = None

\* C7: a request that fails with NotFound, AlreadyExists, InvalidInput or
\* InsufficientFunds leaves the balances, the set of accounts, the profiles
\* and the log exactly as they were
C7_FailedRequestChangesNothing ==
  /\ \A u \in AnyUser, p \in Pins :
        LET o == create_user(u, "Other", "Name", "x@y.z", "111", p)
        IN Failed(o) => LedgerUntouched(o) /\ o.inflight = inflight
  /\ \A u \in AnyUser, a \in Amounts, n \in Notes :
        /\ LET o == deposit(u, a, n)
           IN Failed(o) => LedgerUntouched(o) /\ o.inflight = inflight
        /\ LET o == withdraw(u, a, n)
           IN Failed(o) => LedgerUntouched(o) /\ o.inflight = inflight
  /\ \A u, v \in AnyUser, a \in Amounts, n \in Notes :
        LET o == transfer(u, v, a, n)
        IN Failed(o) => LedgerUntouched(o) /\ o.inflight = inflight

\* C7 witness: alice holds 70 after a deposit and a withdrawal; a withdrawal
\* and a transfer of 100 fail for lack of funds, a second create-user for
\* alice fails, and so do a deposit to and a transfer to an unknown user
C7_Witness ==
  /\ Accounts = {"alice", "bob"}
  /\ user_accounts["alice"] = 70
  /\ Len(transaction_history) = 2
  /\ withdraw("alice", 100, None).response.detail = "InsufficientFunds"
  /\ transfer("alice", "bob", 100, None).response.detail = "InsufficientFunds"
  /\ transfer("alice", "carol", 30, None).response.detail = "NotFound"
  /\ deposit("carol", 30, None).response.detail = "NotFound"
  /\ create_user("alice", "Other", "Name", "x@y.z", "111",
                 <<"1", "2", "a", "b">>).response.detail = "AlreadyExists"

\* C8: the log holds one record per deposit and per withdrawal and two per
\* transfer that mutated the ledger; creating alice and bob, depositing 100
\* to alice and transferring 30 from alice to bob gives balances 70 and 30
\* and exactly 3 records
C8_OneRecordPerOperation ==
  /\ Len(transaction_history) = nDeposits + nWithdrawals + 2 * nTransfers
  /\ (/\ nDeposits = 1 /\ nWithdrawals = 0 /\ nTransfers = 1
      /\ Len(transaction_history) >= 2
      /\ transaction_history[1].type = "deposit"
      /\ transaction_history[1].username = "alice"
      /\ transaction_history[1].amount = 100
      /\ transaction_history[2].type = "transfer_out"
      /\ transaction_history[2].username = "alice"
      /\ transaction_history[2].amount = -30
      /\ transaction_history[2].to_user = "bob")
     => /\ user_accounts["alice"] = 70
        /\ user_accounts["bob"] = 30
        /\ Len(transaction_history) = 3
        /\ transaction_history[3].type = "transfer_in"
        /\ transaction_history[3].username = "bob"
        /\ transaction_history[3].amount = 30

\* C8 witness: the example has run
C8_Witness ==
  /\ nDeposits = 1 /\ nWithdrawals = 0 /\ nTransfers = 1
  /\ Len(transaction_history) = 3
  /\ transaction_history[1].type = "deposit"
  /\ transaction_history[1].amount = 100
  /\ transaction_history[2].type = "transfer_out"
  /\ transaction_history[2].amount = -30
  /\ transaction_history[3].type = "transfer_in"
  /\ user_accounts["alice"] = 70
  /\ user_accounts["bob"] = 30

\* C9 as claimed: the new_balance a successful deposit reports is the
\* balance just before its own mutation plus the amount (the balance its
\* mutation left), also when the deposit was suspended in its analysis and
\* other requests changed the account meanwhile
C9_DepositReportsOwnBalance ==
  /\ \A u \in Accounts, a \in Positive, n \in Notes :
        LET o == deposit(u, a, n)
        IN Committed(o) =>
             /\ o.user_accounts[u] = user_accounts[u] + a
             /\ o.response.status = 200 =>
                  o.response.new_balance = user_accounts[u] + a
  /\ \A s \in Slots :
        inflight[s].op = "deposit" =>
          /\ AwaitingCategorizer(s) =>
               CategorizerRaises(s).response.new_balance = inflight[s].after
          /\ AwaitingAdvisor(s) =>
               /\ AdvisorRaises(s).response.new_balance = inflight[s].after
               /\ \A tip \in Tips :
                     AdvisorReturns(s, tip).response.new_balance
                       = inflight[s].after

\* C9 witness: a deposit of 100 to alice is suspended in its analysis, a
\* withdrawal of 30 has run meanwhile: the deposit left 100, the account
\* holds 70
C9_Witness ==
  \E s \in Slots :
     /\ inflight[s].op = "deposit"
     /\ inflight[s].username = "alice"
     /\ inflight[s].after = 100
     /\ user_accounts["alice"] = 70

\* the positions of the categorized outflows of a user
CategorizedOutflows(u) ==
  {i \in 1..Len(transaction_history) :
     /\ transaction_history[i].username = u
     /\ transaction_history[i].category # None
     /\ transaction_history[i].amount < 0}

\* what the records at positions 1..i say user u spent on category c
RECURSIVE SpentOn(_, _, _)
SpentOn(i, u, c) ==
  IF i = 0 THEN 0
  ELSE SpentOn(i - 1, u, c) +
         (IF i \in CategorizedOutflows(u) /\ transaction_history[i].category = c
          THEN -transaction_history[i].amount ELSE 0)

\* C10: spending-summary for an existing user answers has_data = false
\* (category none, total 0) iff the user has no record with a category and
\* amount < 0; records with amount >= 0, categorized or not, and
\* uncategorized outflows count toward no category total
C10_SummaryCountsCategorizedOutflowsOnly ==
  /\ \A u \in Accounts :
        LET o == get_spending_summary(u)
            totals == category_totals(user_txs(transaction_history, u))
        IN /\ (o.response.status = 200 /\ ~o.response.has_data)
                <=> CategorizedOutflows(u) = {}
           /\ CategorizedOutflows(u) = {} =>
                /\ o.response.category = None
                /\ o.response.total = 0
                /\ o.inflight = inflight
           /\ (CategorizedOutflows(u) # {} /\ ~o.full) =>
                \/ o.response.status = 200 /\ o.response.has_data
                \/ /\ o.response.status = 0
                   /\ \E s \in Slots :
                         /\ inflight[s].op = "idle"
                         /\ o.inflight[s].op = "summary"
                         /\ o.inflight[s].username = u
           /\ {totals[k].category : k \in 1..Len(totals)}
                = {transaction_history[i].category :
                     i \in CategorizedOutflows(u)}
           /\ \A k \in 1..Len(totals) :
                 /\ totals[k].total
                      = SpentOn(Len(transaction_history), u,
                                totals[k].category)
                 /\ \A j \in 1..Len(totals) :
                       totals[j].category = totals[k].category => j = k
  /\ \A s \in Slots :
        inflight[s].op = "summary" =>
          /\ CategorizedOutflows(inflight[s].username) # {}
          /\ AdvisorRaises(s).response.has_data
          /\ \A tip \in Tips : AdvisorReturns(s, tip).response.has_data

\* C10 witness: alice has a categorized deposit and an uncategorized
\* withdrawal, and the summary answers has_data = false
C10_Witness ==
  /\ Len(transaction_history) = 2
  /\ transaction_history[1].type = "deposit"
  /\ transaction_history[1].category = "Food"
  /\ transaction_history[2].type = "withdrawal"
  /\ transaction_history[2].username = "alice"
  /\ transaction_history[2].category = None
  /\ get_spending_summary("alice").response.status = 200
  /\ ~get_spending_summary("alice").response.has_data

\* a summary with data: alice has a categorized withdrawal, and the summary
\* is suspended in the Advisor's call
C10_WitnessData ==
  /\ CategorizedOutflows("alice") # {}
  /\ \E s \in Slots : inflight[s].op = "summary"

\* the first categorized outflow of user u in category c: its position
FirstOutflow(u, c) ==
  CHOOSE i \in CategorizedOutflows(u) :
     /\ transaction_history[i].category = c
     /\ \A j \in CategorizedOutflows(u) :
           transaction_history[j].category = c => i <= j

\* the category and total a spending-summary with data has settled on: in
\* its response, or held by the handler suspended in the Advisor's call
Reported(o) ==
  IF o.response.status = 200
  THEN [category |-> o.response.category, total |-> o.response.total]
  ELSE LET s == CHOOSE s \in Slots :
                   inflight[s].op = "idle" /\ o.inflight[s].op = "summary"
       IN [category |-> o.inflight[s].category, total |-> o.inflight[s].total]

\* C11: for a user with a categorized outflow, spending-summary settles (on
\* the log as the request finds it) on a category whose summed absolute
\* outflow is maximal, with that sum as total; among several maximal
\* categories it is the one whose first categorized outflow comes earliest
\* in the log; and the answer carries that category and total
C11_SummaryReportsDominantCategory ==
  /\ \A u \in Accounts :
        LET o == get_spending_summary(u)
            all == Len(transaction_history)
        IN (CategorizedOutflows(u) # {} /\ ~o.full) =>
             /\ Reported(o).category
                  \in {transaction_history[i].category :
                         i \in CategorizedOutflows(u)}
             /\ Reported(o).total = SpentOn(all, u, Reported(o).category)
             /\ \A i \in CategorizedOutflows(u) :
                   LET c == transaction_history[i].category
                   IN /\ SpentOn(all, u, c) <= Reported(o).total
                      /\ SpentOn(all, u, c) = Reported(o).total =>
                           FirstOutflow(u, Reported(o).category)
                             <= FirstOutflow(u, c)
  /\ \A s \in Slots :
        inflight[s].op = "summary" =>
          /\ AdvisorRaises(s).response.category = inflight[s].category
          /\ AdvisorRaises(s).response.total = inflight[s].total
          /\ \A tip \in Tips :
                /\ AdvisorReturns(s, tip).response.category
                     = inflight[s].category
                /\ AdvisorReturns(s, tip).response.total = inflight[s].total

\* C11 witness: alice withdrew 30 twice, the first categorized Others, the
\* second Food: the totals tie and the summary settles on Others
C11_Witness ==
  /\ Len(transaction_history) = 3
  /\ transaction_history[2].username = "alice"
  /\ transaction_history[2].amount = -30
  /\ transaction_history[2].category = "Others"
  /\ transaction_history[3].username = "alice"
  /\ transaction_history[3].amount = -30
  /\ transaction_history[3].category = "Food"
  /\ ~get_spending_summary("alice").full
  /\ Reported(get_spending_summary("alice")).category = "Others"
  /\ Reported(get_spending_summary("alice")).total = 30

\* no tie: alice withdrew 30 on Food, then 70 on Others, and the summary
\* settles on the later, larger category
C11_WitnessLarger ==
  /\ Len(transaction_history) = 3
  /\ transaction_history[2].amount = -30
  /\ transaction_history[2].category = "Food"
  /\ transaction_history[3].amount = -70
  /\ transaction_history[3].category = "Others"
  /\ ~get_spending_summary("alice").full
  /\ Reported(get_spending_summary("alice")).category = "Others"
  /\ Reported(get_spending_summary("alice")).total = 70

\* the positions in the log of the records of user u
RecordsOf(u) ==
  {i \in 1..Len(transaction_history) : transaction_history[i].username = u}

\* the j-th newest record of user u: its position in the log
Newest(u, j) ==
  CHOOSE p \in RecordsOf(u) :
     Cardinality({q \in RecordsOf(u) : q > p}) = j - 1

\* C12: GET /transactions/{username} for an existing user with k records
\* lists the last min(10, k) of them, the newest first, and no record of
\* another user; for an unknown user it fails with NotFound; the ledger is
\* not touched
C12_TransactionsNewestTenFirst ==
  \A u \in AnyUser :
     LET o == get_transactions(u)
         k == Cardinality(RecordsOf(u))
         n == IF k < 10 THEN k ELSE 10
     IN /\ LedgerUntouched(o) /\ o.inflight = inflight
        /\ u \notin Accounts =>
             o.response.status = 404 /\ o.response.detail = "NotFound"
        /\ u \in Accounts =>
             /\ o.response.status = 200
             /\ Len(o.response.transactions) = n
             /\ \A j \in 1..n :
                   /\ o.response.transactions[j]
                        = transaction_history[Newest(u, j)]
                   /\ o.response.transactions[j].username = u

\* C12 witness: alice has 11 records among 12, with one of bob's between
\* them; her listing holds 10, begins with the newest and leaves out her
\* oldest; carol's fails
C12_Witness ==
  /\ Len(transaction_history) = 12
  /\ Cardinality(RecordsOf("alice")) = 11
  /\ transaction_history[1].username = "alice"
  /\ transaction_history[6].username = "bob"
  /\ Len(get_transactions("alice").response.transactions) = 10
  /\ get_transactions("alice").response.transactions[1]
       = transaction_history[12]
  /\ get_transactions("alice").response.transactions[10]
       = transaction_history[2]
  /\ Len(get_transactions("bob").response.transactions) = 1
  /\ get_transactions("carol").response.status = 404

\* a profile no transition of the model stores
OtherProfile ==
  [first_name |-> "Other", last_name |-> "Name", email |-> "x@y.z",
   phone |-> "111", pin |-> <<"1", "2", "a", "b">>]

\* create-user with OtherProfile
CreateOther(u) ==
  create_user(u, OtherProfile.first_name, OtherProfile.last_name,
              OtherProfile.email, OtherProfile.phone, OtherProfile.pin)

\* C13: in every state a (well-formed) create-user for a username that has
\* an account fails with AlreadyExists (400) and leaves accounts, profiles
\* and log as they were; for any other username it adds the account with
\* balance 0 and the profile and touches nothing else; and no step ever
\* removes an account or changes a stored profile
C13_CreateUserOnceOnly ==
  /\ [](/\ DOMAIN user_details = Accounts
        /\ \A u \in AnyUser :
              LET o == CreateOther(u)
              IN /\ u \in Accounts =>
                      /\ o.response.status = 400
                      /\ o.response.detail = "AlreadyExists"
                      /\ LedgerUntouched(o)
                 /\ u \notin Accounts =>
                      /\ o.response.status = 201
                      /\ DOMAIN o.user_accounts = Accounts \cup {u}
                      /\ DOMAIN o.user_details = Accounts \cup {u}
                      /\ o.user_accounts[u] = 0
                      /\ o.user_details[u] = OtherProfile
                      /\ \A v \in Accounts :
                            /\ o.user_accounts[v] = user_accounts[v]
                            /\ o.user_details[v] = user_details[v]
                      /\ o.transaction_history = transaction_history)
  /\ [][/\ DOMAIN user_accounts \subseteq DOMAIN user_accounts'
         /\ \A u \in DOMAIN user_details :
               /\ u \in DOMAIN user_details'
               /\ user_details'[u] = user_details[u]]_vars

\* C13 witness: alice has an account holding 70, bob has none: a further
\* create-user for alice is refused, one for bob is not
C13_Witness ==
  /\ Accounts = {"alice"}
  /\ user_accounts["alice"] = 70
  /\ CreateOther("alice").response.detail = "AlreadyExists"
  /\ CreateOther("alice").user_accounts["alice"] = 70
  /\ CreateOther("bob").response.status = 201

\* pins of the four characters the request model asks for: those of Pins,
\* and a numeric one that no account was created with
FourCharPins == {p \in Pins : Len(p) = 4} \cup {<<"9", "9", "9", "9">>}

\* C14: authenticate answers 400 (invalid PIN format) for a pin that is not
\* all digits, whether or not the user exists; for a numeric pin 404 when
\* the user is unknown and 200 with the welcome message otherwise; and it
\* changes no balance, profile or record
C14_AuthenticateFormatThenUser ==
  \A u \in AnyUser, p \in FourCharPins :
     LET o == authenticate(u, p)
         numeric == \A i \in 1..Len(p) : p[i] \in Digits
     IN /\ LedgerUntouched(o) /\ o.inflight = inflight
        /\ ~numeric =>
             o.response.status = 400 /\ o.response.detail = "InvalidPinFormat"
        /\ (numeric /\ u \notin Accounts) =>
             o.response.status = 404 /\ o.response.detail = "NotFound"
        /\ (numeric /\ u \in Accounts) =>
             /\ o.response.status = 200
             /\ o.response.message = "Welcome, " \o u \o "!"

\* C14 witness: alice has an account with money and records, carol has
\* none: carol with a malformed pin gets 400, with a numeric pin 404, and
\* alice is welcomed with a numeric pin
C14_Witness ==
  /\ "alice" \in Accounts
  /\ user_accounts["alice"] = 70
  /\ Len(transaction_history) = 2
  /\ authenticate("carol", <<"1", "2", "a", "b">>).response.status = 400
  /\ authenticate("alice", <<"1", "2", "a", "b">>).response.status = 400
  /\ authenticate("carol", <<"1", "2", "3", "4">>).response.status = 404
  /\ authenticate("alice", <<"1", "2", "3", "4">>).response.message
       = "Welcome, alice!"

Categories == {ALLOWED_CATEGORIES[i] : i \in 1..Len(ALLOWED_CATEGORIES)}

\* model outputs to try: those the replies draw, every label as spelled, in
\* lower case and padded, and texts that are no label
ProbeOutputs ==
  ModelOutputs
    \cup {Spelling(c) : c \in Categories}
    \cup {[i \in 1..Len(Spelling(c)) |-> lowerChar(Spelling(c)[i])] :
            c \in Categories}
    \cup {<<"\t", " ">> \o Spelling(c) \o <<"\n">> : c \in Categories}
    \cup {<<>>, <<" ">>, <<"F", "o", " ", "o", "d">>, <<"B", "i", "l", "l">>,
          <<"F", "o", "o", "d", ".", " ">>}

\* content is the label cat up to letter case, between runs of whitespace
Matches(content, cat) ==
  \E i, j \in 0..Len(content) :
     /\ i + Len(Spelling(cat)) + j = Len(content)
     /\ \A k \in 1..i : content[k] \in Whitespace
     /\ \A k \in 1..j : content[Len(content) + 1 - k] \in Whitespace
     /\ \A k \in 1..Len(Spelling(cat)) :
           lowerChar(content[i + k]) = lowerChar(Spelling(cat)[k])

\* the label of every output tried is the member it matches, or Others
LabelOfEveryOutput ==
  \A content \in ProbeOutputs :
     LET label == categorize_transaction(content)
     IN /\ label \in Categories
        /\ \A cat \in Categories : Matches(content, cat) => label = cat
        /\ (\A cat \in Categories : ~Matches(content, cat)) =>
             label = "Others"

C16_AnalyzeSurfacesFailure ==
  /\ \A n \in Notes :
        LET o == analyze_transaction_endpoint(n)
        IN /\ LedgerUntouched(o)
           /\ (Truthy(n) /\ ~api_key) =>
                /\ o.response.status = 500
                /\ o.response.detail = "NotConfigured"
                /\ o.inflight = inflight
           /\ (Truthy(n) /\ api_key /\ ~o.full) =>
                /\ o.response = NoResponse
                /\ \E s \in Slots :
                      /\ inflight[s].op = "idle"
                      /\ o.inflight[s].op = "analyze"
                      /\ o.inflight[s].recs = <<>>
  /\ \A s \in Slots :
        /\ inflight[s].op = "analyze" =>
             /\ inflight[s].recs = <<>>
             /\ AwaitingCategorizer(s) =>
                  /\ CategorizerRaises(s).response.status = 500
                  /\ LedgerUntouched(CategorizerRaises(s))
                  /\ \A content \in ModelOutputs :
                        LedgerUntouched(CategorizerReturns(s, content))
             /\ AwaitingAdvisor(s) =>
                  /\ AdvisorRaises(s).response.status = 500
                  /\ LedgerUntouched(AdvisorRaises(s))
                  /\ \A tip \in Tips :
                        LET o == AdvisorReturns(s, tip)
                        IN /\ o.response.status = 200
                           /\ o.response.note = inflight[s].note
                           /\ o.response.category = inflight[s].category
                           /\ o.response.tip = tip
                           /\ LedgerUntouched(o)
        /\ inflight[s].op \in LedgerOps =>
             /\ AwaitingCategorizer(s) =>
                  CategorizerRaises(s).response.status = 200
             /\ AwaitingAdvisor(s) => AdvisorRaises(s).response.status = 200

\* C16 witness: alice holds 70 and has two records, one of them labelled;
\* an analyze-transaction request has its label and awaits the Advisor
C16_Witness ==
  \E s \in Slots :
     /\ inflight[s].op = "analyze"
     /\ AwaitingAdvisor(s)
     /\ inflight[s].category = "Food"
     /\ "alice" \in Accounts
     /\ user_accounts["alice"] = 70
     /\ Len(transaction_history) = 2
     /\ transaction_history[2].category = "Others"
     /\ AdvisorRaises(s).response.status = 500

\* without a key, beside a ledger with money and records
C16_WitnessUnconfigured ==
  /\ ~api_key
  /\ "alice" \in Accounts
  /\ user_accounts["alice"] = 70
  /\ Len(transaction_history) = 2
  /\ analyze_transaction_endpoint("pizza").response.status = 500

\* every record the handler in slot s created carries label c in history
OwnRecordsLabelled(history, s, c) ==
  \A k \in 1..Len(inflight[s].recs) :
     history[inflight[s].recs[k]].category = c

\* C17 as claimed: once the Categorizer has returned a label for the note of
\* a deposit, withdraw or transfer, the handler ends with that label on the
\* record(s) it created, whatever happens next; the category stays unset
\* only when the Categorizer's own call fails
C17_LabelWrittenOnceCategorized ==
  \A s \in Slots :
     inflight[s].op \in LedgerOps =>
       /\ AwaitingCategorizer(s) =>
            OwnRecordsLabelled(CategorizerRaises(s).transaction_history, s,
                               None)
       /\ AwaitingAdvisor(s) =>
            /\ inflight[s].category \in Categories
            /\ \A tip \in Tips :
                  OwnRecordsLabelled(AdvisorReturns(s, tip).transaction_history,
                                     s, inflight[s].category)
            /\ OwnRecordsLabelled(AdvisorRaises(s).transaction_history, s,
                                  inflight[s].category)

\* C17 witness: the Categorizer has labelled the note of a withdrawal Food;
\* the Advisor's call is outstanding, and if it fails the record stays
\* without a category
C17_Witness ==
  \E s \in Slots :
     /\ inflight[s].op = "withdraw"
     /\ AwaitingAdvisor(s)
     /\ inflight[s].category = "Food"
     /\ OwnRecordsLabelled(AdvisorRaises(s).transaction_history, s, None)
     /\ AdvisorRaises(s).response.status = 200

\* the positions of the records the handler in slot s created
Own(s) == {inflight[s].recs[k] : k \in 1..Len(inflight[s].recs)}

\* the record type a handler's k-th record has
OwnType(op, k) ==
  CASE op = "deposit" -> "deposit"
    [] op = "withdraw" -> "withdrawal"
    [] op = "transfer" -> IF k = 1 THEN "transfer_out" ELSE "transfer_in"

\* history is `log` but for the category at the positions in `where`
SameButCategoryAt(history, log, where) ==
  /\ Len(history) = Len(log)
  /\ \A i \in 1..Len(log) :
        /\ [history[i] EXCEPT !.category = None]
             = [log[i] EXCEPT !.category = None]
        /\ i \notin where => history[i].category = log[i].category

\* C18: the log only grows at its end; a record in it keeps its type,
\* username, amount, counterparty, timestamp and note; its category, once a
\* label, stays that label, and it changes only in the step that ends the
\* handler holding the record.  A suspended deposit, withdraw or transfer holds
\* the record(s) it created itself, still unlabelled, no two handlers hold
\* the same record, and when its analysis returns the label goes on those
\* records and on no other, wherever in the log they are by then
C18_RecordsImmutableButCategory ==
  /\ [](\A s \in Slots :
          inflight[s].op \in LedgerOps =>
            /\ Own(s) \subseteq 1..Len(transaction_history)
            /\ \A k \in 1..Len(inflight[s].recs) :
                  LET tx == transaction_history[inflight[s].recs[k]]
                  IN /\ tx.type = OwnType(inflight[s].op, k)
                     /\ tx.note = inflight[s].note
                     /\ tx.category = None
                     /\ tx.username = IF k = 1 THEN inflight[s].username
                                      ELSE inflight[s].to_user
            /\ \A t \in Slots \ {s} : Own(s) \cap Own(t) = {}
            /\ AwaitingAdvisor(s) =>
                  /\ \A tip \in Tips :
                        SameButCategoryAt(
                          AdvisorReturns(s, tip).transaction_history,
                          transaction_history, Own(s))
                  /\ AdvisorRaises(s).transaction_history
                       = transaction_history
            /\ AwaitingCategorizer(s) =>
                  CategorizerRaises(s).transaction_history
                    = transaction_history)
  /\ [][/\ Len(transaction_history') >= Len(transaction_history)
         /\ \A i \in 1..Len(transaction_history) :
               /\ [transaction_history'[i] EXCEPT !.category = None]
                    = [transaction_history[i] EXCEPT !.category = None]
               /\ transaction_history[i].category # None =>
                    transaction_history'[i].category
                      = transaction_history[i].category
               /\ transaction_history'[i].category
                    # transaction_history[i].category =>
                    \E s \in Slots :
                       /\ i \in Own(s)
                       /\ \A t \in Slots :
                             inflight'[t].recs # inflight[s].recs]_vars

\* C18 witness: the deposit that created the first record is still
\* suspended, with its label, while two more records have been appended
C18_Witness ==
  \E s \in Slots :
     /\ inflight[s].op = "deposit"
     /\ AwaitingAdvisor(s)
     /\ inflight[s].recs = <<1>>
     /\ Len(transaction_history) = 3
     /\ \A tip \in Tips :
           /\ AdvisorReturns(s, tip).transaction_history[1].category
                = inflight[s].category
           /\ AdvisorReturns(s, tip).transaction_history[3].category = None

\* in `history` every transfer_out record is followed by the transfer_in
\* record of the same transfer, and the two carry the same category
LegsAgree(history) ==
  \A i \in 1..Len(history) :
     history[i].type = "transfer_out" =>
       /\ i + 1 <= Len(history)
       /\ history[i + 1].type = "transfer_in"
       /\ history[i + 1].username = history[i].to_user
       /\ history[i + 1].from_user = history[i].username
       /\ history[i + 1].timestamp = history[i].timestamp
       /\ history[i + 1].category = history[i].category

\* C19: in every reachable state the two records of a transfer carry the
\* same category, both unset or both the same label, and every way a
\* suspended transfer can go on leaves them so
C19_TransferLegsSameCategory ==
  /\ LegsAgree(transaction_history)
  /\ \A s \in Slots :
        inflight[s].op = "transfer" =>
          /\ AwaitingCategorizer(s) =>
               LegsAgree(CategorizerRaises(s).transaction_history)
          /\ AwaitingAdvisor(s) =>
               /\ LegsAgree(AdvisorRaises(s).transaction_history)
               /\ \A tip \in Tips :
                     LegsAgree(AdvisorReturns(s, tip).transaction_history)

\* C19 witness: a transfer from alice to bob has been labelled Food on both
\* records
C19_Witness ==
  /\ Len(transaction_history) = 3
  /\ transaction_history[2].type = "transfer_out"
  /\ transaction_history[2].category = "Food"
  /\ transaction_history[3].type = "transfer_in"
  /\ transaction_history[3].username = "bob"
  /\ transaction_history[3].category = "Food"

\* a transfer with its label, before the write: both records unset
C19_WitnessPending ==
  \E s \in Slots :
     /\ inflight[s].op = "transfer"
     /\ AwaitingAdvisor(s)
     /\ inflight[s].category = "Others"
     /\ transaction_history[inflight[s].recs[1]].category = None
     /\ transaction_history[inflight[s].recs[2]].category = None

\* the slots outcome o has filled
Started(o) == {s \in Slots : inflight[s].op = "idle" /\ o.inflight[s].op # "idle"}

\* outcome o of a request with a note has suspended its handler in the
\* Categorizer's call with `records` appended behind the log as it was
SuspendedAfterAppend(o, records) ==
  /\ o.response = NoResponse
  /\ o.transaction_history = transaction_history \o records
  /\ \A s \in Started(o) :
        /\ o.inflight[s].phase = "categorizer"
        /\ o.inflight[s].recs
             = [k \in 1..Len(records) |-> Len(transaction_history) + k]

\* the request is answered in this very step: it waits for no other handler
Answered(o) == o.full \/ o.response.status # 0

\* C20: a deposit, withdraw or transfer is suspended in its categorization
\* only with its balance mutation made and its record(s) appended; while it
\* is suspended the balance and the listing show them, a withdraw or
\* transfer of another request decides on the balance as mutated, and
\* balance, transactions, withdraw, transfer and deposit requests are
\* answered without waiting for it
C20_AnalysisAfterCommitNotBlocking ==
  /\ \A u \in Accounts, a \in Positive :
        /\ LET o == deposit(u, a, "pizza")
           IN Started(o) # {} =>
                /\ o.user_accounts[u] = user_accounts[u] + a
                /\ SuspendedAfterAppend(
                      o, <<deposit_record(u, a, clock, "pizza")>>)
        /\ LET o == withdraw(u, a, "pizza")
           IN Started(o) # {} =>
                /\ o.user_accounts[u] = user_accounts[u] - a
                /\ SuspendedAfterAppend(
                      o, <<withdrawal_record(u, a, clock, "pizza")>>)
        /\ \A v \in Accounts \ {u} :
              LET o == transfer(u, v, a, "pizza")
              IN Started(o) # {} =>
                   /\ o.user_accounts[u] = user_accounts[u] - a
                   /\ o.user_accounts[v] = user_accounts[v] + a
                   /\ SuspendedAfterAppend(
                         o, <<transfer_out_record(u, v, a, clock, "pizza"),
                              transfer_in_record(u, v, a, clock, "pizza")>>)
  /\ \A s \in Slots :
        inflight[s].op \in LedgerOps =>
          LET u == inflight[s].username
              listed == get_transactions(u).response.transactions
          IN /\ Own(s) \subseteq 1..Len(transaction_history)
             /\ user_accounts[u] = SumAmounts(user_txs(transaction_history, u))
             /\ get_balance(u).response.status = 200
             /\ get_balance(u).response.balance = user_accounts[u]
             /\ \E j \in 1..Len(listed) :
                   listed[j] = transaction_history[inflight[s].recs[1]]
             /\ \A a \in Positive :
                   /\ Answered(deposit(u, a, None))
                   /\ Answered(withdraw(u, a, None))
                   /\ Failed(withdraw(u, a, None)) <=> a > user_accounts[u]
                   /\ \A v \in Accounts \ {u} :
                         /\ Answered(transfer(u, v, a, None))
                         /\ Failed(transfer(u, v, a, None))
                              <=> a > user_accounts[u]
                         /\ Answered(transfer(v, u, a, None))

\* C20 witness: alice held 100; her withdrawal of 30 with a note is
\* suspended in the Categorizer's call: the balance reads 70, the listing
\* begins with the withdrawal, a further withdrawal of 100 is refused and
\* one of 70 is carried out at once
C20_Witness ==
  \E s \in Slots :
     /\ inflight[s].op = "withdraw"
     /\ AwaitingCategorizer(s)
     /\ inflight[s].recs = <<2>>
     /\ Len(transaction_history) = 2
     /\ get_balance("alice").response.balance = 70
     /\ get_transactions("alice").response.transactions[1].type = "withdrawal"
     /\ withdraw("alice", 100, None).response.detail = "InsufficientFunds"
     /\ withdraw("alice", 70, None).response.status = 200
     /\ withdraw("alice", 70, None).user_accounts["alice"] = 0

\* C21 as claimed: no deposit, withdraw, transfer or spending-summary
\* blocks indefinitely: a handler suspended in the external call is
\* eventually resumed and answers, also when the collaborator never does
C21_EveryRequestAnswered ==
  \A s \in Slots : (inflight[s].op # "idle") ~> (inflight[s].op = "idle")

\* C21 witness: alice's spending-summary is suspended in the Advisor's
\* call, beside a full log: only an answer or a failure of the external
\* call can end it
C21_Witness ==
  \E s \in Slots :
     /\ inflight[s].op = "summary"
     /\ inflight[s].username = "alice"
     /\ AwaitingAdvisor(s)
     /\ Len(transaction_history) = MaxLog

\* the sum of the balances of all accounts
RECURSIVE TotalBalance(_)
TotalBalance(accounts) ==
  IF DOMAIN accounts = {} THEN 0
  ELSE LET u == CHOOSE v \in DOMAIN accounts : TRUE
       IN accounts[u]
            + TotalBalance([v \in DOMAIN accounts \ {u} |-> accounts[v]])

\* the records of one type
OfType(history, type) ==
  SelectSeq(history, LAMBDA tx : tx.type = type)

\* what the deposits that went through paid in, and what the withdrawals
\* that went through took out (a withdrawal is logged with -amount)
Deposited == SumAmounts(OfType(transaction_history, "deposit"))
Withdrawn == 0 - SumAmounts(OfType(transaction_history, "withdrawal"))

\* C22: money is conserved.  In every reachable state the balances add up
\* to the deposits that went through minus the withdrawals that went
\* through; a deposit that goes through raises the sum by its amount, a
\* withdrawal lowers it by its amount, a refused request and the end of
\* an external call leave it alone; a transfer never changes the sum, and
\* one that goes through has debited the sender and credited the receiver
\* in the same step, so that no state shows the one without the other
C22_MoneyConserved ==
  /\ TotalBalance(user_accounts) = Deposited - Withdrawn
  /\ Len(OfType(transaction_history, "deposit")) = nDeposits
  /\ Len(OfType(transaction_history, "withdrawal")) = nWithdrawals
  /\ \A r \in DepositRequests :
        LET o == deposit(r[1], r[2], r[3])
        IN TotalBalance(o.user_accounts) =
             TotalBalance(user_accounts)
               + (IF Committed(o) THEN r[2] ELSE 0)
  /\ \A r \in WithdrawRequests :
        LET o == withdraw(r[1], r[2], r[3])
        IN TotalBalance(o.user_accounts) =
             TotalBalance(user_accounts)
               - (IF Committed(o) THEN r[2] ELSE 0)
  /\ \A r \in TransferRequests :
        LET o == transfer(r[1], r[2], r[3], r[4])
        IN /\ TotalBalance(o.user_accounts) = TotalBalance(user_accounts)
           /\ Committed(o) =>
                /\ o.user_accounts[r[1]] = user_accounts[r[1]] - r[3]
                /\ o.user_accounts[r[2]] = user_accounts[r[2]] + r[3]
           /\ ~Committed(o) => o.user_accounts = user_accounts
  /\ \A r \in CreateUserRequests :
        TotalBalance(create_user(r[1], "A", "B", "a@b.c", "555",
                                 r[2]).user_accounts)
          = TotalBalance(user_accounts)
  /\ \A s \in Slots :
        /\ AwaitingCategorizer(s) =>
             /\ CategorizerRaises(s).user_accounts = user_accounts
             /\ \A content \in ModelOutputs :
                   CategorizerReturns(s, content).user_accounts
                     = user_accounts
        /\ AwaitingAdvisor(s) =>
             /\ AdvisorRaises(s).user_accounts = user_accounts
             /\ \A tip \in Tips :
                   AdvisorReturns(s, tip).user_accounts = user_accounts

\* C22 witness: bob paid in 100 and moved 30 to alice: both balances have
\* moved and the sum is what was paid in
C22_Witness ==
  /\ Accounts = {"alice", "bob"}
  /\ Deposited = 100
  /\ nTransfers = 1
  /\ user_accounts["bob"] = 70
  /\ user_accounts["alice"] = 30
  /\ \E i \in 1..Len(transaction_history) :
        /\ transaction_history[i].type = "transfer_out"
        /\ transaction_history[i].username = "bob"

\* C22 witness: money has left the bank, 100 paid in and 30 taken out
C22_WitnessWithdrawn ==
  /\ Deposited = 100
  /\ Withdrawn = 30
  /\ TotalBalance(user_accounts) = 70

\* the all-digit pins of four characters
NumericPins == {p \in FourCharPins : isdigit(p)}

\* the answer to a welcomed user: it names the user and nothing else
Welcomed(u) ==
  [NoResponse EXCEPT !.status = 200, !.detail = "OK",
                     !.message = "Welcome, " \o u \o "!"]

\* C23: the outcome of authenticate does not depend on the stored pin.
\* For an existing user every all-digit pin of four characters, the stored
\* one or another, is answered with the same welcome, which is the same
\* whatever pin the profile holds; the profile is left as it is.  The
\* other operations do not look at the stored pin either: create-user
\* refuses an existing username whether or not the pin sent is the stored
\* one, the balance reported and the effect of a deposit are those of the
\* accounts alone.
C23_AuthenticateIgnoresStoredPin ==
  \A u \in Accounts :
     /\ \A p \in NumericPins :
          /\ authenticate(u, p).response = Welcomed(u)
          /\ LedgerUntouched(authenticate(u, p))
          /\ \A q \in NumericPins :
                authenticate(u, p).response = authenticate(u, q).response
     /\ \A p \in FourCharPins :
          LET o == create_user(u, "First", "Last", "a@b.c", "555", p)
          IN o.response.status = 400 /\ LedgerUntouched(o)
     /\ get_balance(u).response.status = 200
     /\ get_balance(u).response.balance = user_accounts[u]
     /\ LET o == deposit(u, 100, None)
        IN Committed(o) =>
             /\ o.user_accounts = Credit(user_accounts, u, 100)
             /\ o.user_details = user_details

\* C23 witness: alice and bob have accounts that differ in the stored pin
\* (alice's is not even numeric), alice has money; both are welcomed with
\* 9999, which is the stored pin of neither, and alice with bob's pin
C23_Witness ==
  /\ {"alice", "bob"} \subseteq Accounts
  /\ user_details["alice"].pin = <<"1", "2", "a", "b">>
  /\ user_details["bob"].pin = <<"1", "2", "3", "4">>
  /\ user_accounts["alice"] = 100
  /\ authenticate("alice", <<"9", "9", "9", "9">>).response.status = 200
  /\ authenticate("bob", <<"9", "9", "9", "9">>).response.status = 200
  /\ authenticate("alice", user_details["bob"].pin).response.status = 200
====
